---------------------------- MODULE Spec2Model ----------------------------
(***************************************************************************)
(* State-machine model of MarketMonitor (src/market_monitor.py): the       *)
(* incremental synchronisation of per-fund net-value series from a remote  *)
(* paginated source into local CSV files, the retry policy around one      *)
(* fetch, the thread-pool fan-out of get_fund_data, the indicator record   *)
(* and the report.                                                         *)
(*                                                                         *)
(* A DataFrame is a sequence of rows [date, net_value]; dates are day      *)
(* numbers, net values are integers (hundredths).  NaT / NaN are the       *)
(* values pandas' errors='coerce' produces for an unparseable cell.        *)
(***************************************************************************)
EXTENDS Integers, Sequences, FiniteSets, TLC

\* ----------------------------------------------------------------- bounds
NumFunds == 2
MaxTicks == 1
StartDay == 60

\* ------------------------------------------------------ program constants
StopAfterAttempt == 5
max_pages_to_check == 5
PageSize == 20
min_data_points == 26
TailRows == 100
UpdateHour == 21
max_workers == 5
NaT == -1
NaN == -1

Funds == 1..NumFunds

VARIABLES
    now,                  \* the wall clock: [date, hour]
    ticks,                \* how often the clock has advanced (bounded)
    report_codes,         \* the fund codes the report file mentions
    remote,               \* per fund: what the remote API holds, as [kind, newest, count]
    store,                \* per fund: the rows of fund_data/<code>.csv
    pc,                   \* position of the main thread
    fund_codes,           \* self.fund_codes
    fund_data,            \* self.fund_data: a function on the codes recorded so far
    preload_i,            \* index of the preload loop of get_fund_data
    fund_codes_to_fetch,  \* the list built by the preload loop
    expected_latest_date, \* get_fund_data's local of that name
    task,                 \* per fund: the state of its _fetch_fund_data future
    collected,            \* the futures as_completed has already yielded, in order
    requests,             \* per fund: requests.get calls made (the fetch-call counter)
    saves,                \* per fund: _save_to_local_file calls made
    report,               \* the rows of the generated report, in order
    started,              \* the clock as get_fund_data read it (line 402)
    damage,               \* per fund: what is wrong with the bytes of its file, or "none"
    merge,                \* the merge exercised on its own: [step, local, new, once, twice]
    sig,                  \* the signal rules on their own: [step, snap, label, advice]
    bt                    \* _backtest_strategy on one series: its locals and position

vars == <<now, ticks, report_codes, remote, store, pc, fund_codes, fund_data,
          preload_i, fund_codes_to_fetch, expected_latest_date, task,
          collected, requests, saves, report, started, damage, merge, sig, bt>>

\* ------------------------------------------------------- sequence helpers
Range(s) == {s[i] : i \in DOMAIN s}

\* The recursions over a series split their range in halves, so that a series
\* of a hundred rows and more is walked in order at a depth of a few calls.
RECURSIVE SelectFrom(_, _, _, _)
SelectFrom(s, keep, lo, hi) ==
    IF lo > hi THEN <<>>
    ELSE IF lo = hi THEN (IF keep[lo] THEN <<s[lo]>> ELSE <<>>)
    ELSE LET mid == (lo + hi) \div 2
         IN  SelectFrom(s, keep, lo, mid) \o SelectFrom(s, keep, mid + 1, hi)

\* df[mask]: the rows whose mask is true, in order
SelectRows(s, keep) == SelectFrom(s, keep, 1, Len(s))

RECURSIVE Concat(_)
Concat(dfs) == IF dfs = <<>> THEN <<>> ELSE Head(dfs) \o Concat(Tail(dfs))

\* df.tail(n)
TailN(df, n) == IF Len(df) <= n THEN df ELSE SubSeq(df, Len(df) - n + 1, Len(df))

\* ------------------------------------------------------ DataFrame helpers
\* pd.to_datetime / pd.to_numeric with errors='coerce': a cell that does not
\* parse (modelled as a negative raw cell) becomes NaT / NaN.
ToDatetime(cell) == IF cell < 0 THEN NaT ELSE cell
ToNumeric(cell) == IF cell < 0 THEN NaN ELSE cell

CoerceRows(raw) ==
    [i \in DOMAIN raw |-> [date      |-> ToDatetime(raw[i].date),
                            net_value |-> ToNumeric(raw[i].net_value)]]

\* a dropna that rejects nothing
DropNaKeepsAll(df) == df

\* df.dropna(subset=['date', 'net_value'])
DropNa(df) ==
    SelectRows(df, [i \in DOMAIN df |-> df[i].date # NaT /\ df[i].net_value # NaN])

\* df[df['date'].dt.date > latest_local_date]
NewerThan(df, d) == SelectRows(df, [i \in DOMAIN df |-> df[i].date > d])

\* df['date'].max()
RECURSIVE MaxDateFrom(_, _, _)
MaxDateFrom(df, lo, hi) ==
    IF lo = hi THEN df[lo].date
    ELSE LET mid == (lo + hi) \div 2
             a   == MaxDateFrom(df, lo, mid)
             b   == MaxDateFrom(df, mid + 1, hi)
         IN  IF a >= b THEN a ELSE b
MaxDate(df) == MaxDateFrom(df, 1, Len(df))

\* a drop_duplicates that drops nothing
DropDuplicatesKeepsAll(df) == df

\* drop_duplicates(subset=['date'], keep='last')
DropDuplicates(df) ==
    SelectRows(df, [i \in DOMAIN df |->
                       \A j \in DOMAIN df : j > i => df[j].date # df[i].date])

\* sort_values(by='date', ascending=True): NaT sorts last
DateLE(a, b) == b = NaT \/ (a # NaT /\ a <= b)

RECURSIVE InsertRow(_, _)
InsertRow(r, s) ==
    IF s = <<>> THEN <<r>>
    ELSE IF DateLE(s[Len(s)].date, r.date) THEN Append(s, r)
    ELSE Append(InsertRow(r, SubSeq(s, 1, Len(s) - 1)), s[Len(s)])

\* the rows lo..hi of df inserted, in their order, into the sorted rows acc.
\* TLC evaluates an argument when it is first used; Len(acc) uses acc before the
\* range is split, so that no chain of pending insertions builds up.
RECURSIVE SortFrom(_, _, _, _)
SortFrom(df, lo, hi, acc) ==
    IF lo > hi \/ Len(acc) < 0 THEN acc
    ELSE IF lo = hi THEN InsertRow(df[lo], acc)
    ELSE LET mid == (lo + hi) \div 2
         IN  SortFrom(df, mid + 1, hi, SortFrom(df, lo, mid, acc))
SortValues(df) == SortFrom(df, 1, Len(df), <<>>)

\* pd.concat([local_df, new_combined_df]).drop_duplicates(...).sort_values(...)
MergeAppend(local_df, new_combined_df) ==
    SortValues(DropDuplicates(local_df \o new_combined_df))

\* ------------------------------------------------------------- indicators
(***************************************************************************)
(* Floats are fixed-point integers in units of 1/FixScale; a float that    *)
(* may be NaN is a record [nan, v].  latest_net_value is a number or the   *)
(* string the failure record carries.                                      *)
(***************************************************************************)
FixScale == 10000

F(v) == [nan |-> FALSE, v |-> v]
NanF == [nan |-> TRUE, v |-> 0]
Num(v) == [isnum |-> TRUE, num |-> v, str |-> ""]
Str(s) == [isnum |-> FALSE, num |-> 0, str |-> s]

\* the labels of market_monitor.py, in ASCII
FetchFailed == "fetch_failed"        \* "数据获取失败"
AdviceWatch == "watch"               \* "观察"
AdviceWait == "wait_for_pullback"    \* "等待回调"
AdviceBuy == "accumulate"            \* "可分批买入"
Hold == "hold"                       \* "持有/观察"
StrongSell == "strong_sell"          \* "强卖出/规避"
WeakSell == "weak_sell"              \* "弱卖出/规避"
StrongBuy == "strong_buy"            \* "强买入"
WeakBuy == "weak_buy"                \* "弱买入"
NA == "N/A"

Min(a, b) == IF a <= b THEN a ELSE b

RECURSIVE SumFrom(_, _, _)
SumFrom(s, lo, hi) ==
    IF lo > hi THEN 0
    ELSE IF lo = hi THEN s[lo]
    ELSE LET mid == (lo + hi) \div 2
         IN  SumFrom(s, lo, mid) + SumFrom(s, mid + 1, hi)
SumSeq(s) == SumFrom(s, 1, Len(s))

RECURSIVE IsqrtIn(_, _, _)
IsqrtIn(x, lo, hi) ==
    IF lo >= hi THEN lo
    ELSE LET mid == (lo + hi + 1) \div 2
         IN  IF mid * mid <= x THEN IsqrtIn(x, mid, hi) ELSE IsqrtIn(x, lo, mid - 1)
Isqrt(x) == IsqrtIn(x, 0, 40000)

\* series.ewm(span=span, adjust=False).mean() of a fixed-point series
\* y[1] = x[1], y[i] = (1 - a) * y[i - 1] + a * x[i] with a = 2 / (span + 1);
\* EwmFrom gives y[lo..hi] from prev = y[lo - 1]
RECURSIVE EwmFrom(_, _, _, _, _)
EwmFrom(xs, span, lo, hi, prev) ==
    IF lo > hi THEN <<>>
    ELSE IF lo = hi THEN <<((span - 1) * prev + 2 * xs[lo]) \div (span + 1)>>
    ELSE LET mid  == (lo + hi) \div 2
             left == EwmFrom(xs, span, lo, mid, prev)
         IN  left \o EwmFrom(xs, span, mid + 1, hi, left[Len(left)])
Ewm(xs, span) == <<xs[1]>> \o EwmFrom(xs, span, 2, Len(xs), xs[1])

\* a failure record that carries a trading label
FailureRecordHolding(fund_code) ==
    [fund_code |-> fund_code, latest_net_value |-> Str(FetchFailed), rsi |-> NanF,
     ma_ratio |-> NanF, macd_diff |-> NanF, bb_upper |-> NanF, bb_lower |-> NanF,
     advice |-> AdviceWatch, action_signal |-> Hold]

\* the record both failure paths build (lines 204-207, 293-303, 441-444)
FailureRecord(fund_code) ==
    [fund_code |-> fund_code, latest_net_value |-> Str(FetchFailed), rsi |-> NanF,
     ma_ratio |-> NanF, macd_diff |-> NanF, bb_upper |-> NanF, bb_lower |-> NanF,
     advice |-> AdviceWatch, action_signal |-> NA]

\* lines 211-241: the latest point's indicators of an ascending series
Snapshot(df) ==
    LET n      == Len(df)
        nv     == [i \in 1..n |-> df[i].net_value * FixScale]
        exp12  == Ewm(nv, 12)
        exp26  == Ewm(nv, 26)
        macd   == [i \in 1..n |-> exp12[i] - exp26[i]]
        signal == Ewm(macd, 9)
        w      == Min(20, n)
        win    == SubSeq(df, n - w + 1, n)
        wsum   == SumSeq([i \in 1..w |-> win[i].net_value])
        wdev   == SumSeq([i \in 1..w |-> (w * win[i].net_value - wsum)
                                          * (w * win[i].net_value - wsum)])
        bb_mid == (wsum * FixScale) \div w
        \* (wdev * FixScale) \div wden, without leaving 32 bits
        wden   == w * w * (w - 1)
        bb_std == IF w < 2 THEN NanF
                  ELSE F(Isqrt((wdev \div wden) * FixScale
                                   + ((wdev % wden) * FixScale) \div wden) * 100)
        \* delta.where(delta > 0, 0): the first delta is NaN and counts as 0
        delta  == [i \in 1..n |-> IF i = 1 THEN 0
                                  ELSE df[i].net_value - df[i - 1].net_value]
        k      == Min(14, n)
        gain   == SumSeq([i \in 1..k |-> IF delta[n - k + i] > 0
                                         THEN delta[n - k + i] ELSE 0])
        loss   == SumSeq([i \in 1..k |-> IF delta[n - k + i] < 0
                                         THEN 0 - delta[n - k + i] ELSE 0])
        \* rs = avg_gain / avg_loss.replace(0, nan); rsi = 100 - 100 / (1 + rs)
        rsi    == IF loss = 0 THEN NanF
                  ELSE F((100 * FixScale * gain) \div (gain + loss))
        m      == Min(50, n)
        ma50s  == SumSeq([i \in 1..m |-> df[n - m + i].net_value])
        ratio  == IF ma50s = 0 THEN NanF
                  ELSE F((df[n].net_value * m * FixScale) \div ma50s)
    IN  [latest_net_value |-> df[n].net_value,
         rsi       |-> rsi,
         ma_ratio  |-> ratio,
         macd_diff |-> F(macd[n] - signal[n]),
         bb_upper  |-> IF bb_std.nan THEN NanF ELSE F(bb_mid + 2 * bb_std.v),
         bb_lower  |-> IF bb_std.nan THEN NanF ELSE F(bb_mid - 2 * bb_std.v)]

\* comparisons of a float that may be NaN with a constant given in 1/100
Gt(x, c) == ~x.nan /\ x.v * 100 > c * FixScale
Lt(x, c) == ~x.nan /\ x.v * 100 < c * FixScale

\* lines 243-257
Advice(s) ==
    LET nvf == s.latest_net_value * FixScale IN
    IF Gt(s.rsi, 7000) \/ (~s.bb_upper.nan /\ nvf > s.bb_upper.v) \/ Gt(s.ma_ratio, 120)
        THEN AdviceWait
    ELSE IF Lt(s.rsi, 3000) \/ (~s.bb_lower.nan /\ nvf < s.bb_lower.v) \/ Lt(s.ma_ratio, 80)
        THEN AdviceBuy
    ELSE IF Gt(s.ma_ratio, 100) /\ (~s.macd_diff.nan /\ s.macd_diff.v > 0)
        THEN AdviceBuy
    ELSE IF Lt(s.ma_ratio, 100) /\ (~s.macd_diff.nan /\ s.macd_diff.v < 0)
        THEN AdviceWait
    ELSE AdviceWatch

\* the rules in the order the backtest has them: buy rules first
ActionSignalBuyFirst(s) ==
    LET nvf == s.latest_net_value * FixScale IN
    IF Lt(s.rsi, 3500) /\ Lt(s.ma_ratio, 90)
            /\ (~s.macd_diff.nan /\ s.macd_diff.v > 0) THEN StrongBuy
    ELSE IF Lt(s.rsi, 4500) \/ (~s.bb_lower.nan /\ nvf < s.bb_lower.v)
            \/ Lt(s.ma_ratio, 100) THEN WeakBuy
    ELSE IF Lt(s.ma_ratio, 95) THEN StrongSell
    ELSE IF Gt(s.rsi, 7000) /\ Gt(s.ma_ratio, 120)
            /\ (~s.macd_diff.nan /\ s.macd_diff.v < 0) THEN StrongSell
    ELSE IF Gt(s.rsi, 6500) \/ (~s.bb_upper.nan /\ nvf > s.bb_upper.v)
            \/ Gt(s.ma_ratio, 120) THEN WeakSell
    ELSE Hold

\* lines 259-277
ActionSignal(s) ==
    LET nvf == s.latest_net_value * FixScale IN
    IF Lt(s.ma_ratio, 95) THEN StrongSell
    ELSE IF Gt(s.rsi, 7000) /\ Gt(s.ma_ratio, 120)
            /\ (~s.macd_diff.nan /\ s.macd_diff.v < 0) THEN StrongSell
    ELSE IF Gt(s.rsi, 6500) \/ (~s.bb_upper.nan /\ nvf > s.bb_upper.v)
            \/ Gt(s.ma_ratio, 120) THEN WeakSell
    ELSE IF Lt(s.rsi, 3500) /\ Lt(s.ma_ratio, 90)
            /\ (~s.macd_diff.nan /\ s.macd_diff.v > 0) THEN StrongBuy
    ELSE IF Lt(s.rsi, 4500) \/ (~s.bb_lower.nan /\ nvf < s.bb_lower.v)
            \/ Lt(s.ma_ratio, 100) THEN WeakBuy
    ELSE Hold

\* _calculate_indicators(fund_code, df)
CalculateIndicators(fund_code, df) ==
    IF df = <<>> \/ Len(df) < min_data_points THEN FailureRecord(fund_code)
    ELSE LET s == Snapshot(SortValues(df))
         IN  [fund_code |-> fund_code, latest_net_value |-> Num(s.latest_net_value),
              rsi |-> s.rsi, ma_ratio |-> s.ma_ratio, macd_diff |-> s.macd_diff,
              bb_upper |-> s.bb_upper, bb_lower |-> s.bb_lower,
              advice |-> Advice(s), action_signal |-> ActionSignal(s)]

\* ------------------------------------------------------------ environment
\* the net value the fund company published for a day
Nav(d) == 100 + ((d * d) % 4)

\* a well-formed local file: count rows ending at latest, ascending
LocalSeries(latest, count) ==
    [i \in 1..count |-> [date |-> latest - count + i,
                         net_value |-> Nav(latest - count + i)]]

\* what the remote holds, newest first (raw cells): count rows ending at newest
RemoteSeries(newest, count) ==
    [i \in 1..count |-> [date |-> newest - i + 1, net_value |-> Nav(newest - i + 1)]]

\* a remote table with an unparseable value cell, a date listed twice and an
\* unparseable date cell
RemoteMessy(newest) ==
    <<[date |-> newest, net_value |-> Nav(newest)],
      [date |-> newest - 1, net_value |-> -2],
      [date |-> newest - 2, net_value |-> Nav(newest - 2)],
      [date |-> newest - 2, net_value |-> Nav(newest - 2) + 1],
      [date |-> -2, net_value |-> Nav(newest - 3)]>>

\* a remote whose row at the page boundary is repeated on the next page
RemoteShifted(newest, count) ==
    LET base == RemoteSeries(newest, count)
    IN  SubSeq(base, 1, PageSize)
        \o <<[date |-> base[PageSize].date, net_value |-> base[PageSize].net_value + 1]>>
        \o SubSeq(base, PageSize + 1, count)

\* the rows behind a remote descriptor [kind, newest, count]
RemoteRows(r) ==
    CASE r.kind = "series"  -> RemoteSeries(r.newest, r.count)
      [] r.kind = "messy"   -> RemoteMessy(r.newest)
      [] r.kind = "shifted" -> RemoteShifted(r.newest, r.count)

RemoteOf(kind, newest, count) == [kind |-> kind, newest |-> newest, count |-> count]

\* the (local file, remote table) situations a fund starts a run in
Profiles(T) ==
    { [local |-> <<>>,                    remote |-> RemoteOf("series", T, 0)],
      [local |-> <<>>,                    remote |-> RemoteOf("messy", T, 5)],
      [local |-> <<>>,                    remote |-> RemoteOf("series", T, 25)],
      [local |-> LocalSeries(T, 26),      remote |-> RemoteOf("series", T, 30)],
      [local |-> LocalSeries(T, 3),       remote |-> RemoteOf("series", T, 3)],
      [local |-> LocalSeries(T - 2, 26),  remote |-> RemoteOf("series", T, 30)] }

\* a fund whose file is weeks behind a remote that is itself a day behind, and
\* whose remote repeats a row across a page boundary: the fetch pages on; and a
\* fund whose file is more than a page behind an up-to-date remote
PagingProfiles(T) ==
    { [local |-> LocalSeries(T - 23, 26), remote |-> RemoteOf("shifted", T - 2, 44)],
      [local |-> LocalSeries(T - 25, 26), remote |-> RemoteOf("series", T, 44)] }

\* a fund whose file is longer than the window handed to the indicators
LongProfiles(T) ==
    { [local |-> LocalSeries(T - 2, TailRows + 1), remote |-> RemoteOf("series", T, 30)] }

\* a fund whose file is there but cannot be read as a series
DamagedProfiles(T) ==
    { [local |-> LocalSeries(T, 26), remote |-> RemoteOf("series", T, 3),
       damage |-> "no_columns"],
      [local |-> LocalSeries(T, 26), remote |-> RemoteOf("messy", T, 5),
       damage |-> "unparseable"],
      [local |-> <<>>,               remote |-> RemoteOf("series", T, 3),
       damage |-> "empty"] }

\* the page the API returns for page=page_index&per=20 (empty past the last page)
Page(rows, page_index) ==
    SubSeq(rows, PageSize * (page_index - 1) + 1, Min(PageSize * page_index, Len(rows)))

\* what one requests.get + parse can do
Responses == {"ok", "RequestException", "malformed", "ParseError"}

\* ------------------------------------------------------------------ clock
\* an expected date that runs ahead of the clock before the publication hour
ExpectedLatestDateAhead(t) == IF t.hour < UpdateHour THEN t.date + 1 ELSE t.date

\* _get_expected_latest_date
ExpectedLatestDate(t) == IF t.hour < UpdateHour THEN t.date - 1 ELSE t.date

\* what can be wrong with a file: read_csv raises on it (not CSV at all, or
\* zero bytes), or it parses to a table without the date / net_value columns
Damages == {"unparseable", "empty", "no_columns"}

\* a read that takes the rows of the file whatever state the file is in
ReadLocalDataAnyway(fund_code) == store[fund_code]

\* _read_local_data: the rows of a readable file; the empty frame for an absent
\* one, for one read_csv raises on (line 91) and for one that fails line 88
ReadLocalData(fund_code) ==
    IF damage[fund_code] # "none" THEN <<>> ELSE store[fund_code]

\* a code list that keeps every match of the pattern, repeated ones included
RECURSIVE SortedCodesRepeating(_)
SortedCodesRepeating(S) ==
    IF S = {} THEN <<>>
    ELSE LET m == CHOOSE x \in S : \A y \in S : x <= y
         IN  <<m, m>> \o SortedCodesRepeating(S \ {m})

\* sorted(list(extracted_codes))[:1000]
RECURSIVE SortedCodes(_)
SortedCodes(S) ==
    IF S = {} THEN <<>>
    ELSE LET m == CHOOSE x \in S : \A y \in S : x <= y
         IN  <<m>> \o SortedCodes(S \ {m})

\* ------------------------------------------------------------------ tasks
IdleTask ==
    [pc |-> "idle", attempt_number |-> 0, local_df |-> <<>>, expected |-> 0,
     all_new_data |-> <<>>, page_index |-> 1, new_df_bound |-> FALSE, new_df |-> <<>>,
     raised |-> "", cause |-> "", df |-> <<>>]

Running == {f \in Funds : task[f].pc \in {"loop", "sleep"}}

\* self.fund_data[fund_code] = rec
Put(d, code, rec) ==
    [c \in (DOMAIN d) \cup {code} |-> IF c = code THEN rec ELSE d[c]]

IdleMerge == [step |-> 0, local |-> <<>>, new |-> <<>>, once |-> <<>>, twice |-> <<>>]
IdleSig == [step |-> 0, snap |-> <<>>, label |-> "", advice |-> ""]
IdleBt == [step |-> "idle", df |-> <<>>, signals |-> <<>>, i |-> 0, position |-> 0,
           buy_price |-> 0, trades |-> <<>>, result |-> <<>>]

\* the variables of the exercises, which the monitor's own steps leave alone
Probes == <<merge, sig, bt>>

TypeOK ==
    /\ pc \in {"start", "preload", "collect", "done", "returned", "reported", "failed",
               "aborted", "killed"}
    /\ \A f \in Funds :
          /\ task[f].pc \in {"idle", "submitted", "loop", "sleep", "done", "killed"}
          /\ damage[f] \in Damages \cup {"none"}
    /\ DOMAIN fund_data \subseteq Funds

Init ==
    /\ now \in {[date |-> StartDay, hour |-> h] : h \in {UpdateHour - 1, UpdateHour}}
    /\ ticks = 0
    /\ report_codes \in SUBSET Funds
    /\ \E prof \in [Funds -> Profiles(StartDay)] :
          /\ remote = [f \in Funds |-> prof[f].remote]
          /\ store = [f \in Funds |-> prof[f].local]
    /\ pc = "start"
    /\ fund_codes = <<>>
    /\ fund_data = <<>>
    /\ preload_i = 1
    /\ fund_codes_to_fetch = <<>>
    /\ expected_latest_date = 0
    /\ task = [f \in Funds |-> IdleTask]
    /\ collected = <<>>
    /\ requests = [f \in Funds |-> 0]
    /\ saves = [f \in Funds |-> 0]
    /\ report = <<>>
    /\ started = now
    /\ damage = [f \in Funds |-> "none"]
    /\ merge = IdleMerge
    /\ sig = IdleSig
    /\ bt = IdleBt

\* time passes
Tick ==
    /\ ticks < MaxTicks
    /\ ticks' = ticks + 1
    /\ now' = IF now.hour < UpdateHour THEN [date |-> now.date, hour |-> UpdateHour]
              ELSE [date |-> now.date + 1, hour |-> UpdateHour - 1]
    /\ UNCHANGED Probes
    /\ UNCHANGED <<damage, report_codes, remote, store, pc, fund_codes, fund_data, preload_i,
                   fund_codes_to_fetch, expected_latest_date, task, collected,
                   requests, saves, report, started>>

\* get_fund_data, lines 395-403: _parse_report and the early return
ParseReport ==
    /\ pc = "start"
    /\ LET sorted_codes == SortedCodes(report_codes)
       IN  fund_codes' = SubSeq(sorted_codes, 1, Min(1000, Len(sorted_codes)))
    /\ pc' = IF fund_codes' = <<>> THEN "returned" ELSE "preload"
    /\ expected_latest_date' =
          IF fund_codes' = <<>> THEN expected_latest_date ELSE ExpectedLatestDate(now)
    /\ started' = now
    /\ UNCHANGED Probes
    /\ UNCHANGED <<damage, now, ticks, report_codes, remote, store, fund_data, preload_i,
                   fund_codes_to_fetch, task, collected, requests, saves, report>>

\* a freshness test that wants the file strictly newer than expected
IsFreshStrict(local_df, expected) ==
    /\ local_df # <<>>
    /\ MaxDate(local_df) > expected
    /\ Len(local_df) >= min_data_points

\* lines 412: the condition under which the local file is used as it is
IsFresh(local_df, expected) ==
    /\ local_df # <<>>
    /\ MaxDate(local_df) >= expected
    /\ Len(local_df) >= min_data_points

\* get_fund_data, lines 405-427: one iteration of the preload loop
Preload ==
    /\ pc = "preload"
    /\ preload_i <= Len(fund_codes)
    /\ LET fund_code == fund_codes[preload_i]
           local_df  == ReadLocalData(fund_code)
       IN  IF IsFresh(local_df, expected_latest_date)
           THEN /\ fund_data' = Put(fund_data, fund_code,
                                    CalculateIndicators(fund_code, TailN(local_df, TailRows)))
                /\ UNCHANGED fund_codes_to_fetch
           ELSE /\ fund_codes_to_fetch' = Append(fund_codes_to_fetch, fund_code)
                /\ UNCHANGED fund_data
    /\ preload_i' = preload_i + 1
    /\ UNCHANGED Probes
    /\ UNCHANGED <<damage, now, ticks, report_codes, remote, store, pc, fund_codes,
                   expected_latest_date, task, collected, requests, saves, report,
                   started>>

\* get_fund_data, lines 429-432 and 445-451: submit every code to the pool
Submit ==
    /\ pc = "preload"
    /\ preload_i > Len(fund_codes)
    /\ pc' = IF fund_codes_to_fetch # <<>> THEN "collect" ELSE "done"
    /\ task' = [f \in Funds |-> IF f \in Range(fund_codes_to_fetch)
                                THEN [IdleTask EXCEPT !.pc = "submitted"]
                                ELSE task[f]]
    /\ UNCHANGED Probes
    /\ UNCHANGED <<damage, now, ticks, report_codes, remote, store, fund_codes, fund_data,
                   preload_i, fund_codes_to_fetch, expected_latest_date, collected,
                   requests, saves, report, started>>

\* ----------------------------------------------------- _fetch_fund_data
\* What an attempt can raise, and the Python type of each:
\*   RequestException   requests.get / raise_for_status (line 123-124)
\*   ParseError         pd.read_html or the column assignment: a ValueError (136, 143)
\*   NoData             ValueError("no valid data and no local cache") (line 197)
\*   UnboundLocalError  new_df read before assignment (line 169)
\*   IndexError         iloc[-1] of an empty frame (line 190)
ExcType(e) == IF e \in {"ParseError", "NoData"} THEN "ValueError" ELSE e

\* retry_if_exception_type((requests.exceptions.RequestException, ValueError))
Retryable == {"RequestException", "ValueError"}

\* the future completes: the call's locals are gone
Finished(t, raised, cause, df) ==
    [IdleTask EXCEPT !.pc = "done", !.attempt_number = t.attempt_number,
                     !.raised = raised, !.cause = cause, !.df = df]

\* a stop condition that lets a sixth attempt through
StopLate(t) == t.attempt_number > StopAfterAttempt

\* a retry policy without a ceiling
StopNever(t) == FALSE

\* tenacity, lines 102-107: what an exception leaving an attempt leads to
Stop(t) == t.attempt_number >= StopAfterAttempt

Raise(t, exc) ==
    IF ExcType(exc) \notin Retryable THEN Finished(t, ExcType(exc), exc, <<>>)
    ELSE IF Stop(t) THEN Finished(t, "RetryError", exc, <<>>)
    ELSE [t EXCEPT !.pc = "sleep"]

\* a retry that goes on where the failed attempt stopped
BeginAttemptResuming(f) ==
    /\ \/ /\ task[f].pc = "submitted"
          /\ Cardinality(Running) < max_workers
       \/ task[f].pc = "sleep"
    /\ task' = [task EXCEPT ![f] =
                  [@ EXCEPT !.pc = "loop",
                            !.attempt_number = @ + 1,
                            !.local_df = ReadLocalData(f),
                            !.expected = ExpectedLatestDate(now)]]
    /\ UNCHANGED Probes
    /\ UNCHANGED <<damage, now, ticks, report_codes, remote, store, pc, fund_codes, fund_data,
                   preload_i, fund_codes_to_fetch, expected_latest_date, collected,
                   requests, saves, report, started>>

\* a pool worker picks the call up, or tenacity's wait_fixed(10) is over:
\* lines 110-116, the start of one attempt
BeginAttempt(f) ==
    /\ \/ /\ task[f].pc = "submitted"
          /\ Cardinality(Running) < max_workers
       \/ task[f].pc = "sleep"
    /\ task' = [task EXCEPT ![f] =
                  [@ EXCEPT !.pc = "loop",
                            !.attempt_number = @ + 1,
                            !.local_df = ReadLocalData(f),
                            !.expected = ExpectedLatestDate(now),
                            !.all_new_data = <<>>,
                            !.page_index = 1,
                            !.new_df_bound = FALSE,
                            !.new_df = <<>>]]
    /\ UNCHANGED Probes
    /\ UNCHANGED <<damage, now, ticks, report_codes, remote, store, pc, fund_codes, fund_data,
                   preload_i, fund_codes_to_fetch, expected_latest_date, collected,
                   requests, saves, report, started>>

\* lines 142-173: a page that parsed; t is the task, df the page's valid rows.
\* pc "merge" stands for having left the while loop.
PageParsed(t, df) ==
    LET has_local == t.local_df # <<>>
        new_df    == IF has_local THEN NewerThan(df, MaxDate(t.local_df)) ELSE t.new_df
        bound     == has_local \/ t.new_df_bound
        appended  == IF has_local
                     THEN (IF new_df # <<>> THEN Append(t.all_new_data, new_df)
                           ELSE t.all_new_data)
                     ELSE Append(t.all_new_data, df)
        t1        == [t EXCEPT !.all_new_data = appended, !.new_df = new_df,
                               !.new_df_bound = bound]
    IN  IF has_local /\ new_df = <<>> THEN [t1 EXCEPT !.pc = "merge"]
        ELSE IF Len(df) < PageSize THEN [t1 EXCEPT !.pc = "merge"]
        ELSE IF ~bound THEN Raise(t1, "UnboundLocalError")
        ELSE IF new_df # <<>> /\ MaxDate(new_df) >= t.expected
             THEN [t1 EXCEPT !.pc = "merge"]
        ELSE [t1 EXCEPT !.page_index = @ + 1,
                        !.pc = IF t.page_index + 1 <= max_pages_to_check
                               THEN "loop" ELSE "merge"]

\* lines 118-181: one iteration of the page loop
PageStep(t, rows, resp) ==
    CASE resp = "RequestException" -> Raise(t, "RequestException")
      [] resp = "ParseError"       -> Raise(t, "ParseError")
      [] resp = "malformed"        -> [t EXCEPT !.pc = "merge"]
      [] resp = "ok"               ->
           PageParsed(t, DropNa(CoerceRows(Page(rows, t.page_index))))

\* a return that writes the indicator window over the file
MergeAndReturnSavesTail(t) ==
    IF t.all_new_data # <<>>
    THEN LET df_final == MergeAppend(t.local_df, Concat(t.all_new_data))
         IN  [task  |-> IF df_final = <<>> THEN Raise(t, "IndexError")
                        ELSE Finished(t, "", "", TailN(df_final, TailRows)),
              file  |-> TailN(df_final, TailRows),
              saved |-> TRUE]
    ELSE [task  |-> IF t.local_df # <<>>
                    THEN Finished(t, "", "", TailN(t.local_df, TailRows))
                    ELSE Raise(t, "NoData"),
          file  |-> <<>>,
          saved |-> FALSE]

\* a return that writes the file whether or not anything new was gathered
MergeAndReturnAlwaysSaves(t) ==
    IF t.all_new_data # <<>> \/ t.local_df # <<>>
    THEN LET df_final == MergeAppend(t.local_df, Concat(t.all_new_data))
         IN  [task  |-> IF df_final = <<>> THEN Raise(t, "IndexError")
                        ELSE Finished(t, "", "", TailN(df_final, TailRows)),
              file  |-> df_final,
              saved |-> TRUE]
    ELSE [task  |-> Raise(t, "NoData"),
          file  |-> <<>>,
          saved |-> FALSE]

\* lines 183-197, after the loop: merge, save and return, or fall back to the
\* local rows, or raise; yields the task, the file and whether it was written
MergeAndReturn(t) ==
    IF t.all_new_data # <<>>
    THEN LET df_final == MergeAppend(t.local_df, Concat(t.all_new_data))
         IN  [task  |-> IF df_final = <<>> THEN Raise(t, "IndexError")
                        ELSE Finished(t, "", "", TailN(df_final, TailRows)),
              file  |-> df_final,
              saved |-> TRUE]
    ELSE [task  |-> IF t.local_df # <<>>
                    THEN Finished(t, "", "", TailN(t.local_df, TailRows))
                    ELSE Raise(t, "NoData"),
          file  |-> <<>>,
          saved |-> FALSE]

\* one requests.get of the page loop and everything up to the next blocking
\* call: the next request, tenacity's wait, or the return of the future
FetchPage(f, resp) ==
    /\ task[f].pc = "loop"
    /\ requests' = [requests EXCEPT ![f] = @ + 1]
    /\ LET t1 == PageStep(task[f], RemoteRows(remote[f]), resp) IN
       IF t1.pc = "merge"
       THEN LET out == MergeAndReturn(t1)
            IN  /\ task' = [task EXCEPT ![f] = out.task]
                /\ IF out.saved
                   THEN /\ store' = [store EXCEPT ![f] = out.file]
                        /\ saves' = [saves EXCEPT ![f] = @ + 1]
                        /\ damage' = [damage EXCEPT ![f] = "none"]
                   ELSE UNCHANGED <<store, saves, damage>>
       ELSE /\ task' = [task EXCEPT ![f] = t1]
            /\ UNCHANGED <<store, saves, damage>>
    /\ UNCHANGED Probes
    /\ UNCHANGED <<now, ticks, report_codes, remote, pc, fund_codes, fund_data,
                   preload_i, fund_codes_to_fetch, expected_latest_date, collected,
                   report, started>>

\* get_fund_data, lines 433-444: as_completed yields a finished future
CollectRecord(fund_code, t) ==
    IF t.raised # "" THEN FailureRecord(fund_code)
    ELSE CalculateIndicators(fund_code, t.df)

\* a handler that catches ValueError only
CaughtByExceptValueError(exc) == exc \in {"ValueError"}

\* "except Exception" (line 439): the exceptions the handler catches
CaughtByExcept(exc) ==
    exc \in {"RetryError", "RequestException", "ValueError", "UnboundLocalError",
             "IndexError"}

Collect(f) ==
    /\ pc = "collect"
    /\ task[f].pc = "done"
    /\ f \notin Range(collected)
    /\ IF task[f].raised # "" /\ ~CaughtByExcept(task[f].raised)
       THEN /\ pc' = "aborted"
            /\ UNCHANGED <<fund_data, collected>>
       ELSE /\ fund_data' = Put(fund_data, f, CollectRecord(f, task[f]))
            /\ collected' = Append(collected, f)
            /\ pc' = IF Len(collected') = Len(fund_codes_to_fetch)
                     THEN "done" ELSE "collect"
    /\ UNCHANGED Probes
    /\ UNCHANGED <<damage, now, ticks, report_codes, remote, store, fund_codes, preload_i,
                   fund_codes_to_fetch, expected_latest_date, task, requests, saves,
                   report, started>>

\* ------------------------------------------------------- generate_report
\* f"{x:.2f}" read back by pd.to_numeric: hundredths, or NaN for "N/A"
Round2(x) == IF x.nan THEN NanF ELSE F((x.v * 100 + FixScale \div 2) \div FixScale)

\* lines 459-486: the row of a fund that has a record
RowOf(fund_code, data) ==
    LET lnv == data.latest_net_value IN
    [fund_code        |-> fund_code,
     latest_net_value |-> IF lnv.isnum THEN Num(lnv.num) ELSE Str(NA),
     rsi              |-> Round2(data.rsi),
     ma_ratio         |-> Round2(data.ma_ratio),
     macd_signal      |-> IF data.macd_diff.nan THEN NA
                          ELSE IF data.macd_diff.v > 0 THEN "golden_cross"
                          ELSE "death_cross",
     bollinger_pos    |-> IF ~lnv.isnum THEN NA
                          ELSE IF ~data.bb_upper.nan /\ lnv.num * FixScale > data.bb_upper.v
                               THEN "above_upper"
                          ELSE IF ~data.bb_lower.nan /\ lnv.num * FixScale < data.bb_lower.v
                               THEN "below_lower"
                          ELSE "middle",
     advice           |-> data.advice,
     action_signal    |-> data.action_signal]

\* lines 487-497: the row of a fund that has none
MissingRow(fund_code) ==
    [fund_code |-> fund_code, latest_net_value |-> Str(NA), rsi |-> NanF,
     ma_ratio |-> NanF, macd_signal |-> NA, bollinger_pos |-> NA,
     advice |-> AdviceWatch, action_signal |-> NA]

\* lines 501-514
order_map_action(a) ==
    CASE a = StrongBuy -> 1 [] a = WeakBuy -> 2 [] a = Hold -> 3
      [] a = WeakSell -> 4 [] a = StrongSell -> 5 [] a = NA -> 6
order_map_advice(a) ==
    CASE a = AdviceBuy -> 1 [] a = AdviceWatch -> 2 [] a = AdviceWait -> 3 [] a = NA -> 4

\* lines 523-526: ascending by (action, advice, RSI), NaN last, ties in input order
RowLE(a, b) ==
    LET aa == order_map_action(a.action_signal)
        ba == order_map_action(b.action_signal)
        ad == order_map_advice(a.advice)
        bd == order_map_advice(b.advice)
    IN  \/ aa < ba
        \/ aa = ba /\ ad < bd
        \/ aa = ba /\ ad = bd /\ (b.rsi.nan \/ (~a.rsi.nan /\ a.rsi.v <= b.rsi.v))

RECURSIVE InsertReportRow(_, _)
InsertReportRow(r, s) ==
    IF s = <<>> THEN <<r>>
    ELSE IF RowLE(s[Len(s)], r) THEN Append(s, r)
    ELSE Append(InsertReportRow(r, SubSeq(s, 1, Len(s) - 1)), s[Len(s)])

RECURSIVE SortReport(_)
SortReport(rows) ==
    IF rows = <<>> THEN <<>>
    ELSE InsertReportRow(rows[Len(rows)], SortReport(SubSeq(rows, 1, Len(rows) - 1)))

\* a report that leaves out the funds without a usable record
ReportRowsOmitFailed(codes, data) ==
    LET kept == SelectSeq(codes, LAMBDA c : c \in DOMAIN data /\ data[c].action_signal # NA)
    IN  [i \in DOMAIN kept |-> RowOf(kept[i], data[kept[i]])]

\* rows in the order in which the records were stored: the preloaded funds,
\* then the fetched ones as their tasks completed
ReportRowsInCompletionOrder(codes, data) ==
    LET stored == SelectSeq(codes, LAMBDA c : c \notin Range(collected)) \o collected
    IN  [i \in DOMAIN stored |-> IF stored[i] \in DOMAIN data
                                 THEN RowOf(stored[i], data[stored[i]])
                                 ELSE MissingRow(stored[i])]

\* lines 456-497: one row per code of self.fund_codes
ReportRows(codes, data) ==
    [i \in DOMAIN codes |-> IF codes[i] \in DOMAIN data
                            THEN RowOf(codes[i], data[codes[i]])
                            ELSE MissingRow(codes[i])]

\* generate_report, called once get_fund_data has returned; with no code at all
\* report_df has no column to sort by and the script fails with a KeyError
GenerateReport ==
    /\ pc \in {"done", "returned"}
    /\ IF fund_codes = <<>>
       THEN pc' = "failed" /\ UNCHANGED report
       ELSE pc' = "reported" /\ report' = SortReport(ReportRows(fund_codes, fund_data))
    /\ UNCHANGED Probes
    /\ UNCHANGED <<damage, now, ticks, report_codes, remote, store, fund_codes, fund_data,
                   preload_i, fund_codes_to_fetch, expected_latest_date, task,
                   collected, requests, saves, started>>

Next ==
    \/ Tick
    \/ ParseReport
    \/ Preload
    \/ Submit
    \/ \E f \in Funds : BeginAttempt(f)
    \/ \E f \in Funds : \E resp \in Responses : FetchPage(f, resp)
    \/ \E f \in Funds : Collect(f)
    \/ GenerateReport

Spec == Init /\ [][Next]_vars

\* every call that is pending returns or times out, every sleep ends, every
\* worker and the collecting thread get to run
FairProfiles(T) ==
    { [local |-> <<>>,                    remote |-> RemoteOf("series", T, 25)],
      [local |-> LocalSeries(T - 2, 26),  remote |-> RemoteOf("series", T, 30)],
      [local |-> LocalSeries(T - 23, 26), remote |-> RemoteOf("shifted", T - 2, 44)] }

InitFair ==
    /\ now = [date |-> StartDay, hour |-> UpdateHour]
    /\ ticks = 0
    /\ report_codes = Funds
    /\ \E prof \in FairProfiles(StartDay) :
          /\ remote = [f \in Funds |-> IF f = 1 THEN prof.remote
                                        ELSE RemoteOf("series", StartDay, 0)]
          /\ store = [f \in Funds |-> IF f = 1 THEN prof.local ELSE <<>>]
    /\ pc = "start"
    /\ fund_codes = <<>>
    /\ fund_data = <<>>
    /\ preload_i = 1
    /\ fund_codes_to_fetch = <<>>
    /\ expected_latest_date = 0
    /\ task = [f \in Funds |-> IdleTask]
    /\ collected = <<>>
    /\ requests = [f \in Funds |-> 0]
    /\ saves = [f \in Funds |-> 0]
    /\ report = <<>>
    /\ started = now
    /\ damage = [f \in Funds |-> "none"]
    /\ merge = IdleMerge
    /\ sig = IdleSig
    /\ bt = IdleBt

\* the steps of the preload loop, of a pending request and of the collecting
\* thread, told by the counter each of them moves
PreloadStep ==
    /\ pc = "preload"
    /\ preload_i <= Len(fund_codes)
    /\ preload_i' = preload_i + 1

ReturnStep ==
    \E f \in Funds :
        /\ task[f].pc = "loop"
        /\ requests' = [requests EXCEPT ![f] = @ + 1]

CollectStep ==
    \E f \in Funds :
        /\ pc = "collect"
        /\ task[f].pc = "done"
        /\ f \notin Range(collected)
        /\ collected' = Append(collected, f)

\* the main thread runs; a free worker picks up a submitted call and a sleep
\* of tenacity ends; every request returns or times out (timeout=30, line
\* 123); as_completed hands over every finished future
Fairness ==
    /\ WF_vars(ParseReport)
    /\ WF_preload_i(PreloadStep)
    /\ WF_vars(Submit)
    /\ WF_vars(\E f \in Funds : BeginAttempt(f))
    /\ WF_requests(ReturnStep)
    /\ WF_collected(CollectStep)

FairSpec == InitFair /\ [][Next]_vars /\ Fairness

\* ------------------------------------------------- the merge on its own
(***************************************************************************)
(* MergeSpec applies the merge of lines 185-186 to a stored series and a   *)
(* fetched window that may overlap it, once and then a second time with    *)
(* the same window, while the monitor itself stands still.                 *)
(***************************************************************************)
MaxMergeDate == 3
MaxNewRows == 2

MergeValues == {100, 101}
MergeRows == [date : 1..MaxMergeDate, net_value : MergeValues]

\* the files _save_to_local_file can have written: ascending, one row per date
StoredSeries ==
    {df \in UNION {[1..n -> MergeRows] : n \in 0..MaxMergeDate} :
        \A i, j \in DOMAIN df : i < j => df[i].date < df[j].date}

\* the windows a fetch can hand to the merge: valid rows in any order, dates
\* possibly repeated and possibly already stored
FetchedWindows == UNION {[1..k -> MergeRows] : k \in 0..MaxNewRows}

InitMerge ==
    /\ now = [date |-> StartDay, hour |-> UpdateHour]
    /\ ticks = 0
    /\ report_codes = {}
    /\ remote = [f \in Funds |-> RemoteOf("series", StartDay, 0)]
    /\ store = [f \in Funds |-> <<>>]
    /\ pc = "start"
    /\ fund_codes = <<>>
    /\ fund_data = <<>>
    /\ preload_i = 1
    /\ fund_codes_to_fetch = <<>>
    /\ expected_latest_date = 0
    /\ task = [f \in Funds |-> IdleTask]
    /\ collected = <<>>
    /\ requests = [f \in Funds |-> 0]
    /\ saves = [f \in Funds |-> 0]
    /\ report = <<>>
    /\ started = now
    /\ damage = [f \in Funds |-> "none"]
    /\ sig = IdleSig
    /\ bt = IdleBt
    /\ \E l \in StoredSeries : \E n \in FetchedWindows :
          merge = [step |-> 0, local |-> l, new |-> n, once |-> <<>>, twice |-> <<>>]

MainVars == <<now, ticks, report_codes, remote, store, pc, fund_codes, fund_data,
              preload_i, fund_codes_to_fetch, expected_latest_date, task,
              collected, requests, saves, report, started, damage>>

MergeOnce ==
    /\ merge.step = 0
    /\ merge' = [merge EXCEPT !.step = 1, !.once = MergeAppend(merge.local, merge.new)]
    /\ UNCHANGED <<MainVars, sig, bt>>

MergeAgain ==
    /\ merge.step = 1
    /\ merge' = [merge EXCEPT !.step = 2, !.twice = MergeAppend(merge.once, merge.new)]
    /\ UNCHANGED <<MainVars, sig, bt>>

NextMerge == MergeOnce \/ MergeAgain

MergeSpec == InitMerge /\ [][NextMerge]_vars

\* ------------------------------------------- the signal rules on their own
(***************************************************************************)
(* SignalSpec applies the advice and action rules of lines 243-277 to the  *)
(* latest point's values, drawn from both sides of every threshold of the  *)
(* rules and from NaN, while the monitor itself stands still.              *)
(***************************************************************************)
\* RSI values, in points
RsiValues == {28, 35, 40, 45, 50, 65, 68, 70, 75}
\* net value / MA50, in hundredths
RatioValues == {85, 90, 92, 95, 97, 100, 110, 120, 125}
\* MACD minus signal, in 1/FixScale
MacdValues == {-5, 0, 5}
\* the Bollinger band (lower, upper) around a latest net value of 100, in
\* hundredths: the value inside, below, above and on a band of no width
BandValues == {<<90, 110>>, <<101, 110>>, <<90, 99>>, <<100, 100>>}

Snapshots ==
    {[latest_net_value |-> 100, rsi |-> r, ma_ratio |-> m, macd_diff |-> d,
      bb_upper |-> b[2], bb_lower |-> b[1]] :
        r \in {F(x * FixScale) : x \in RsiValues} \cup {NanF},
        m \in {F(x * (FixScale \div 100)) : x \in RatioValues} \cup {NanF},
        d \in {F(x) : x \in MacdValues},
        b \in {<<F(x[1] * FixScale), F(x[2] * FixScale)>> : x \in BandValues}
                \cup {<<NanF, NanF>>}}

InitSignal ==
    /\ now = [date |-> StartDay, hour |-> UpdateHour]
    /\ ticks = 0
    /\ report_codes = {}
    /\ remote = [f \in Funds |-> RemoteOf("series", StartDay, 0)]
    /\ store = [f \in Funds |-> <<>>]
    /\ pc = "start"
    /\ fund_codes = <<>>
    /\ fund_data = <<>>
    /\ preload_i = 1
    /\ fund_codes_to_fetch = <<>>
    /\ expected_latest_date = 0
    /\ task = [f \in Funds |-> IdleTask]
    /\ collected = <<>>
    /\ requests = [f \in Funds |-> 0]
    /\ saves = [f \in Funds |-> 0]
    /\ report = <<>>
    /\ started = now
    /\ damage = [f \in Funds |-> "none"]
    /\ merge = IdleMerge
    /\ bt = IdleBt
    /\ \E s \in Snapshots : sig = [IdleSig EXCEPT !.snap = s]

\* lines 243-277 on the latest point's values
ApplyRules ==
    /\ sig.step = 0
    /\ sig' = [sig EXCEPT !.step = 1, !.label = ActionSignal(sig.snap),
                          !.advice = Advice(sig.snap)]
    /\ UNCHANGED <<MainVars, merge, bt>>

NextSignal == ApplyRules

SignalSpec == InitSignal /\ [][NextSignal]_vars

\* ------------------------------------------- _calculate_indicators on series
(***************************************************************************)
(* IndicatorSpec hands _calculate_indicators one series: a start value     *)
(* followed by daily changes that repeat a pattern of three, so that there *)
(* are rising, falling, flat and mixed series, shorter and longer than the *)
(* 26 rows the function asks for.                                          *)
(***************************************************************************)
DailyChanges == {-2, 0, 3}
StepPatterns == {<<a, b, c>> : a \in DailyChanges, b \in DailyChanges, c \in DailyChanges}
SeriesLengths == {25, 26, 40, 60}

PatternSeries(pat, count) ==
    [i \in 1..count |->
        [date      |-> i,
         net_value |-> 200 + ((i - 1) \div 3) * (pat[1] + pat[2] + pat[3])
                           + (IF (i - 1) % 3 >= 1 THEN pat[1] ELSE 0)
                           + (IF (i - 1) % 3 >= 2 THEN pat[2] ELSE 0)]]

IndicatorSeries == {PatternSeries(pat, count) : pat \in StepPatterns, count \in SeriesLengths}

InitIndicator ==
    /\ now = [date |-> StartDay, hour |-> UpdateHour]
    /\ ticks = 0
    /\ report_codes = {}
    /\ remote = [f \in Funds |-> RemoteOf("series", StartDay, 0)]
    /\ store = [f \in Funds |-> <<>>]
    /\ pc = "start"
    /\ fund_codes = <<>>
    /\ fund_data = <<>>
    /\ preload_i = 1
    /\ fund_codes_to_fetch = <<>>
    /\ expected_latest_date = 0
    /\ task = [f \in Funds |-> IdleTask]
    /\ collected = <<>>
    /\ requests = [f \in Funds |-> 0]
    /\ saves = [f \in Funds |-> 0]
    /\ report = <<>>
    /\ started = now
    /\ damage = [f \in Funds |-> "none"]
    /\ merge = IdleMerge
    /\ bt = IdleBt
    /\ \E df \in IndicatorSeries : sig = [step |-> 0, df |-> df, rec |-> <<>>]

\* _calculate_indicators(fund_code, df)
CalculateLatest ==
    /\ sig.step = 0
    /\ sig' = [sig EXCEPT !.step = 1, !.rec = CalculateIndicators(1, sig.df)]
    /\ UNCHANGED <<MainVars, merge, bt>>

NextIndicator == CalculateLatest

IndicatorSpec == InitIndicator /\ [][NextIndicator]_vars

\* ---------------------------------------------------- _backtest_strategy
(***************************************************************************)
(* BacktestSpec runs _backtest_strategy on one series: the labelling loop  *)
(* of lines 322-353, the position loop of lines 358-370 one iteration per  *)
(* step, and the returns of lines 372-375.  A finished or refused run can  *)
(* be followed by a run on the same series with one more point.  Positions *)
(* count from 1: the code's df.loc[i] is df[i + 1] here.                    *)
(***************************************************************************)
MinBacktestRows == 100
FirstLabelled == 26

\* lines 323-341: RSI, MA ratio and MACD histogram of the last row of temp_df
BacktestPoint(temp_df) ==
    LET n      == Len(temp_df)
        nv     == [i \in 1..n |-> temp_df[i].net_value * FixScale]
        exp12  == Ewm(nv, 12)
        exp26  == Ewm(nv, 26)
        macd   == [i \in 1..n |-> exp12[i] - exp26[i]]
        signal == Ewm(macd, 9)
        delta  == [i \in 1..n |-> IF i = 1 THEN 0
                                  ELSE temp_df[i].net_value - temp_df[i - 1].net_value]
        k      == Min(14, n)
        gain   == SumSeq([i \in 1..k |-> IF delta[n - k + i] > 0
                                         THEN delta[n - k + i] ELSE 0])
        loss   == SumSeq([i \in 1..k |-> IF delta[n - k + i] < 0
                                         THEN 0 - delta[n - k + i] ELSE 0])
        m      == Min(50, n)
        ma50s  == SumSeq([i \in 1..m |-> temp_df[n - m + i].net_value])
    IN  [rsi       |-> IF loss = 0 THEN NanF
                       ELSE F((100 * FixScale * gain) \div (gain + loss)),
         ma_ratio  |-> IF ma50s = 0 THEN NanF
                       ELSE F((temp_df[n].net_value * m * FixScale) \div ma50s),
         macd_diff |-> F(macd[n] - signal[n])]

\* a label computed from the whole series instead of the rows up to the point
BacktestLabelOfWhole(df, p) ==
    LET s == BacktestPoint(df) IN
    IF s.rsi.nan \/ s.ma_ratio.nan \/ s.macd_diff.nan THEN Hold
    ELSE IF Lt(s.rsi, 3500) /\ Lt(s.ma_ratio, 90) /\ s.macd_diff.v > 0 THEN StrongBuy
    ELSE IF Lt(s.rsi, 4500) \/ Lt(s.ma_ratio, 100) THEN WeakBuy
    ELSE IF Lt(s.ma_ratio, 95) THEN StrongSell
    ELSE IF Gt(s.rsi, 7000) /\ Gt(s.ma_ratio, 120) /\ s.macd_diff.v < 0 THEN StrongSell
    ELSE IF Gt(s.rsi, 6500) \/ Gt(s.ma_ratio, 120) THEN WeakSell
    ELSE Hold

\* lines 323-353: the label of position p, from temp_df = df.iloc[:i + 1]
BacktestLabel(df, p) ==
    LET s == BacktestPoint(SubSeq(df, 1, p)) IN
    IF s.rsi.nan \/ s.ma_ratio.nan \/ s.macd_diff.nan THEN Hold
    ELSE IF Lt(s.rsi, 3500) /\ Lt(s.ma_ratio, 90) /\ s.macd_diff.v > 0 THEN StrongBuy
    ELSE IF Lt(s.rsi, 4500) \/ Lt(s.ma_ratio, 100) THEN WeakBuy
    ELSE IF Lt(s.ma_ratio, 95) THEN StrongSell
    ELSE IF Gt(s.rsi, 7000) /\ Gt(s.ma_ratio, 120) /\ s.macd_diff.v < 0 THEN StrongSell
    ELSE IF Gt(s.rsi, 6500) \/ Gt(s.ma_ratio, 120) THEN WeakSell
    ELSE Hold

\* lines 320-353: the action_signal column
BacktestSignals(df) ==
    [p \in 1..Len(df) |-> IF p <= FirstLabelled THEN Hold ELSE BacktestLabel(df, p)]

BuyLabels == {StrongBuy, WeakBuy}
SellLabels == {StrongSell, WeakSell}

\* the series handed to the backtest: a wave with a dip every third day
Wave(d) ==
    LET t == d % 40
        base == IF t < 20 THEN 100 + 2 * t ELSE 180 - 2 * t
    IN  base - (IF d % 3 = 0 THEN 3 ELSE 0)

WaveSeries(first, count) ==
    [i \in 1..count |-> [date |-> first + i - 1, net_value |-> Wave(first + i - 1)]]

BtMaxAppend == 2
BacktestSeries ==
    {WaveSeries(first, count) : first \in {1, 12}, count \in {99, 100}}
BtSteps == {-6, 6}

InitBacktest ==
    /\ now = [date |-> StartDay, hour |-> UpdateHour]
    /\ ticks = 0
    /\ report_codes = {}
    /\ remote = [f \in Funds |-> RemoteOf("series", StartDay, 0)]
    /\ store = [f \in Funds |-> <<>>]
    /\ pc = "start"
    /\ fund_codes = <<>>
    /\ fund_data = <<>>
    /\ preload_i = 1
    /\ fund_codes_to_fetch = <<>>
    /\ expected_latest_date = 0
    /\ task = [f \in Funds |-> IdleTask]
    /\ collected = <<>>
    /\ requests = [f \in Funds |-> 0]
    /\ saves = [f \in Funds |-> 0]
    /\ report = <<>>
    /\ started = now
    /\ damage = [f \in Funds |-> "none"]
    /\ merge = IdleMerge
    /\ sig = IdleSig
    /\ \E df \in BacktestSeries : bt = [IdleBt EXCEPT !.step = "start", !.df = df]

\* lines 310-312: too short a series is not backtested
RefuseBacktest ==
    /\ bt.step = "start"
    /\ Len(bt.df) < MinBacktestRows
    /\ bt' = [bt EXCEPT !.step = "refused", !.signals = <<>>]
    /\ UNCHANGED <<MainVars, merge, sig>>

\* lines 314-357: sort, label every position, start flat
LabelSignals ==
    /\ bt.step = "start"
    /\ Len(bt.df) >= MinBacktestRows
    /\ LET df == SortValues(bt.df) IN
       bt' = [bt EXCEPT !.step = "trade", !.df = df, !.signals = BacktestSignals(df),
                        !.i = 1, !.position = 0, !.buy_price = 0, !.trades = <<>>,
                        !.result = <<>>]
    /\ UNCHANGED <<MainVars, merge, sig>>

\* a position loop that enters at every buy-class label, flat or not
TradeStepPyramiding ==
    /\ bt.step = "trade"
    /\ bt.i <= Len(bt.df) - 1
    /\ LET p      == bt.i + 1
           signal == bt.signals[p]
           price  == bt.df[p].net_value
       IN  IF signal \in BuyLabels
           THEN bt' = [bt EXCEPT !.i = @ + 1, !.position = 1, !.buy_price = price,
                                 !.trades = Append(@, [buy_at |-> p, buy_price |-> price,
                                                       sold |-> FALSE, sell_at |-> 0,
                                                       sell_price |-> 0, return |-> 0])]
           ELSE IF signal \in SellLabels /\ bt.position = 1
           THEN bt' = [bt EXCEPT !.i = @ + 1, !.position = 0,
                                 !.trades[Len(bt.trades)] =
                                     [@ EXCEPT !.sold = TRUE, !.sell_at = p,
                                               !.sell_price = price,
                                               !.return = ((price - bt.buy_price) * FixScale)
                                                            \div bt.buy_price]]
           ELSE bt' = [bt EXCEPT !.i = @ + 1]
    /\ UNCHANGED <<MainVars, merge, sig>>

\* lines 358-370: one iteration of the position loop
TradeStep ==
    /\ bt.step = "trade"
    /\ bt.i <= Len(bt.df) - 1
    /\ LET p      == bt.i + 1
           signal == bt.signals[p]
           price  == bt.df[p].net_value
       IN  IF signal \in BuyLabels /\ bt.position = 0
           THEN bt' = [bt EXCEPT !.i = @ + 1, !.position = 1, !.buy_price = price,
                                 !.trades = Append(@, [buy_at |-> p, buy_price |-> price,
                                                       sold |-> FALSE, sell_at |-> 0,
                                                       sell_price |-> 0, return |-> 0])]
           ELSE IF signal \in SellLabels /\ bt.position = 1
           THEN bt' = [bt EXCEPT !.i = @ + 1, !.position = 0,
                                 !.trades[Len(bt.trades)] =
                                     [@ EXCEPT !.sold = TRUE, !.sell_at = p,
                                               !.sell_price = price,
                                               !.return = ((price - bt.buy_price) * FixScale)
                                                            \div bt.buy_price]]
           ELSE bt' = [bt EXCEPT !.i = @ + 1]
    /\ UNCHANGED <<MainVars, merge, sig>>

\* lines 372-375: the returns of the trades that have one, and the win rate
\* (the drawdown and the Sharpe ratio are computed from the same list and from
\* the daily returns, and nothing reads them)
FinishBacktest ==
    /\ bt.step = "trade"
    /\ bt.i > Len(bt.df) - 1
    /\ LET returns == SelectSeq(bt.trades, LAMBDA tr : tr.sold)
           wins    == SelectSeq(returns, LAMBDA tr : tr.return > 0)
       IN  bt' = [bt EXCEPT !.step = "done",
                           !.result = [returns  |-> [j \in DOMAIN returns |-> returns[j].return],
                                       traded   |-> bt.trades # <<>>,
                                       win_rate |-> IF returns = <<>> THEN 0
                                                    ELSE (Len(wins) * FixScale)
                                                             \div Len(returns)]]
    /\ UNCHANGED <<MainVars, merge, sig>>

\* the series gets one more point, and the backtest is called again
AppendPoint ==
    /\ bt.step \in {"refused", "done"}
    /\ Len(bt.df) < MinBacktestRows + BtMaxAppend
    /\ \E step \in BtSteps :
          LET last == bt.df[Len(bt.df)] IN
          bt' = [bt EXCEPT !.step = "start",
                           !.df = Append(@, [date |-> last.date + 1,
                                             net_value |-> last.net_value + step])]
    /\ UNCHANGED <<MainVars, merge, sig>>

NextBacktest ==
    \/ RefuseBacktest
    \/ LabelSignals
    \/ TradeStep
    \/ FinishBacktest
    \/ AppendPoint

BacktestSpec == InitBacktest /\ [][NextBacktest]_vars

\* --------------------------------------------- one fund's synchronisation
(***************************************************************************)
(* SyncSpec follows a single fund through get_fund_data from every kind of *)
(* file and remote table: the ones of Spec, files that cannot be read,     *)
(* files longer than the indicator window and files more than a page       *)
(* behind.  The process can also be killed while to_csv is writing.        *)
(***************************************************************************)
\* the most rows a killed to_csv is followed through
MaxCutRows == 2

Intact(prof) == [local |-> prof.local, remote |-> prof.remote, damage |-> "none"]

\* a fund whose file is behind the expected date, and whose remote is no newer
LaggingProfiles(T) ==
    { [local |-> LocalSeries(T - 2, 26), remote |-> RemoteOf("series", T - 2, 30)] }

SyncProfiles(T) ==
    {Intact(prof) : prof \in Profiles(T) \cup PagingProfiles(T) \cup LongProfiles(T)
                               \cup LaggingProfiles(T)}
        \cup DamagedProfiles(T)

InitSync ==
    /\ now \in {[date |-> StartDay, hour |-> h] : h \in {UpdateHour - 1, UpdateHour}}
    /\ ticks = 0
    /\ report_codes = {1}
    /\ \E prof \in SyncProfiles(StartDay) :
          /\ remote = [f \in Funds |-> IF f = 1 THEN prof.remote
                                        ELSE RemoteOf("series", StartDay, 0)]
          /\ store = [f \in Funds |-> IF f = 1 THEN prof.local ELSE <<>>]
          /\ damage = [f \in Funds |-> IF f = 1 THEN prof.damage ELSE "none"]
    /\ pc = "start"
    /\ fund_codes = <<>>
    /\ fund_data = <<>>
    /\ preload_i = 1
    /\ fund_codes_to_fetch = <<>>
    /\ expected_latest_date = 0
    /\ task = [f \in Funds |-> IdleTask]
    /\ collected = <<>>
    /\ requests = [f \in Funds |-> 0]
    /\ saves = [f \in Funds |-> 0]
    /\ report = <<>>
    /\ started = now
    /\ merge = IdleMerge
    /\ sig = IdleSig
    /\ bt = IdleBt

\* _save_to_local_file, line 99: to_csv opens the file for writing, which
\* truncates it, and writes the rows through; a process killed in between
\* leaves the first k rows of the new series
InterruptedSave(f, resp, k) ==
    /\ task[f].pc = "loop"
    /\ LET t1 == PageStep(task[f], RemoteRows(remote[f]), resp) IN
       /\ t1.pc = "merge"
       /\ t1.all_new_data # <<>>
       /\ LET df_final == MergeAppend(t1.local_df, Concat(t1.all_new_data)) IN
          /\ k < Len(df_final)
          /\ store' = [store EXCEPT ![f] = SubSeq(df_final, 1, k)]
       /\ task' = [task EXCEPT ![f] = [t1 EXCEPT !.pc = "killed"]]
    /\ requests' = [requests EXCEPT ![f] = @ + 1]
    /\ damage' = [damage EXCEPT ![f] = "none"]
    /\ pc' = "killed"
    /\ UNCHANGED Probes
    /\ UNCHANGED <<now, ticks, report_codes, remote, fund_codes, fund_data, preload_i,
                   fund_codes_to_fetch, expected_latest_date, collected, saves,
                   report, started>>

NextSync ==
    \/ Next
    \/ \E f \in Funds : \E resp \in Responses : \E k \in 0..MaxCutRows :
          InterruptedSave(f, resp, k)

SyncSpec == InitSync /\ [][NextSync]_vars


\* ================================================================ claims
Collected == Range(collected)

\* a record without the code it is filed under
Anonymous(rec) == [rec EXCEPT !.fund_code = 0]

\* the file is the one the run found: this run has not written it
Untouched(f) == saves[f] = 0

Preloaded == IF pc = "start" THEN {}
             ELSE {fund_codes[i] : i \in 1..(preload_i - 1)}

\* C1 (as claimed): when all five attempts of a fund with local history fail, the
\* record of the fund is the one computed from its local series, not the
\* failure record.
C1_FallsBackToLocalHistory ==
    \A f \in Collected :
        (task[f].raised = "RetryError" /\ task[f].cause = "RequestException"
            /\ store[f] # <<>> /\ Untouched(f))
        => fund_data[f] = CalculateIndicators(f, TailN(store[f], TailRows))

\* C2: a fund the preload loop has passed whose local file is non-empty, is at
\* least as recent as the expected latest date and has at least 26 rows is never
\* requested from the network and never queued; its record is the one computed
\* from the local rows, and its file is not written.
C2_FreshLocalSkipsNetwork ==
    \A f \in Preloaded :
        (Untouched(f) /\ store[f] # <<>> /\ MaxDate(store[f]) >= expected_latest_date
            /\ Len(store[f]) >= 26)
        => /\ requests[f] = 0
           /\ task[f].pc = "idle"
           /\ f \notin Range(fund_codes_to_fetch)
           /\ f \in DOMAIN fund_data
           /\ fund_data[f] = CalculateIndicators(f, TailN(store[f], TailRows))

C2_Witness ==
    \E f \in Preloaded :
        /\ pc = "done"
        /\ store[f] # <<>> /\ MaxDate(store[f]) >= expected_latest_date
        /\ Len(store[f]) >= 26
        /\ requests[f] = 0
        /\ f \in DOMAIN fund_data
        /\ fund_data[f].action_signal # NA

\* the run began before the publication hour with f's file dated that day
TodayNotYetExpected(f) ==
    /\ f \in Preloaded
    /\ started.hour < 21
    /\ Untouched(f)
    /\ store[f] # <<>>
    /\ MaxDate(store[f]) = started.date

\* C3 (as claimed): every fund whose local latest date is today, in a run begun
\* before 21:00, is never requested from the network.
C3_TodayCachedNeverFetched ==
    \A f \in Funds : TodayNotYetExpected(f) => requests[f] = 0

\* C3 (amended): ... provided the local file also has at least 26 rows.
C3_TodayCachedLongEnoughNeverFetched ==
    \A f \in Funds :
        (TodayNotYetExpected(f) /\ Len(store[f]) >= 26) => requests[f] = 0

C3_Witness ==
    \E f \in Funds :
        /\ TodayNotYetExpected(f) /\ Len(store[f]) >= 26
        /\ pc = "done" /\ f \in DOMAIN fund_data /\ requests[f] = 0

\* C4: get_fund_data never aborts on what a future raises; a collected fund's
\* record is the failure record exactly when its own future raised and otherwise
\* the record computed from the frame its own future returned, whatever the
\* other futures did; and when the run is done every queued fund has a record.
C4_FailureStaysWithItsFund ==
    /\ pc # "aborted"
    /\ \A f \in Collected :
          /\ task[f].raised # "" => fund_data[f] = FailureRecord(f)
          /\ task[f].raised = "" => fund_data[f] = CalculateIndicators(f, task[f].df)
    /\ pc \in {"done", "reported"} =>
          \A f \in Range(fund_codes_to_fetch) : f \in Collected

C4_Witness ==
    \E f, g \in Collected :
        /\ pc = "done"
        /\ task[f].raised = "RetryError" /\ fund_data[f].action_signal = NA
        /\ task[g].raised = "" /\ fund_data[g].action_signal # NA

\* C5: a collected fund whose file is still empty (nothing usable came: no page,
\* an unparseable body, or every attempt failing) carries the failure record
\* with action label 'N/A', and get_fund_data has not aborted.
C5_NoDataGivesUnavailable ==
    /\ pc # "aborted"
    /\ \A f \in Collected :
          store[f] = <<>> =>
             /\ task[f].raised # ""
             /\ fund_data[f].action_signal = "N/A"
             /\ fund_data[f].latest_net_value = Str(FetchFailed)

C5_Witness ==
    \E f, g \in Collected :
        /\ store[f] = <<>> /\ task[f].raised = "IndexError" /\ requests[f] = 1
        /\ store[g] = <<>> /\ task[g].raised = "RetryError" /\ task[g].cause = "NoData"
        /\ fund_data[f].action_signal = NA /\ fund_data[g].action_signal = NA

\* C6: a fetch is attempted at most 5 times; it waits for a retry only after
\* fewer than 5 attempts; a RequestException or ValueError never leaves the call
\* as such, and the call fails with RetryError only after the 5th attempt failed
\* with one of them.
C6_AtMostFiveAttempts ==
    \A f \in Funds :
        /\ task[f].attempt_number <= 5
        /\ task[f].pc = "sleep" => task[f].attempt_number \in 1..4
        /\ task[f].raised \notin {"RequestException", "ValueError"}
        /\ task[f].raised = "RetryError" =>
              /\ task[f].attempt_number = 5
              /\ ExcType(task[f].cause) \in {"RequestException", "ValueError"}

C6_Witness ==
    \E f \in Funds :
        /\ task[f].raised = "RetryError" /\ task[f].attempt_number = 5
        /\ task[f].cause = "RequestException"

\* C7 (as claimed): a fund whose retries were exhausted by request errors and a
\* fund without local cache for which the remote returned no rows differ in the
\* error type the caller sees or in their record, and their records differ.
RetriesExhausted(f) ==
    task[f].raised = "RetryError" /\ task[f].cause = "RequestException"
NoHistory(f) ==
    task[f].raised # "" /\ task[f].cause \in {"NoData", "IndexError"} /\ store[f] = <<>>

C7_ExhaustedNotConflated ==
    \A f, g \in Collected :
        (RetriesExhausted(f) /\ NoHistory(g)) =>
            /\ \/ task[f].raised # task[g].raised
               \/ Anonymous(fund_data[f]) # Anonymous(fund_data[g])
            /\ Anonymous(fund_data[f]) # Anonymous(fund_data[g])

\* C8: once get_fund_data has returned for a non-empty list, fund_data has a
\* record for exactly the requested codes; the report has exactly one row per
\* requested code, and the row of a fund whose record is the failure record is
\* the explicit unavailable row.
C8_OneRecordAndRowPerCode ==
    (pc \in {"done", "reported"} /\ fund_codes # <<>>) =>
        /\ DOMAIN fund_data = Range(fund_codes)
        /\ \A c \in Range(fund_codes) : fund_data[c].fund_code = c
        /\ pc = "reported" =>
              /\ Len(report) = Len(fund_codes)
              /\ \A c \in Range(fund_codes) :
                    /\ Cardinality({i \in DOMAIN report : report[i].fund_code = c}) = 1
                    /\ fund_data[c].action_signal = NA =>
                          \E i \in DOMAIN report :
                              /\ report[i].fund_code = c
                              /\ report[i].action_signal = "N/A"
                              /\ report[i].latest_net_value = Str("N/A")

C8_Witness ==
    /\ pc = "reported"
    /\ Len(report) = 2
    /\ \E i, j \in DOMAIN report :
          report[i].action_signal = NA /\ report[j].action_signal # NA

\* C9: merging the same window into the stored series a second time changes
\* nothing: the series after two merges is the series after one, it has no date
\* twice, and it gives every date the value the window's last row for that date
\* has, or else the value the stored series had.
C9_MergeIdempotent ==
    merge.step = 2 =>
        /\ merge.twice = merge.once
        /\ \A i, j \in DOMAIN merge.twice :
              i # j => merge.twice[i].date # merge.twice[j].date
        /\ {r.date : r \in Range(merge.twice)}
              = {r.date : r \in Range(merge.local) \cup Range(merge.new)}
        /\ \A i \in DOMAIN merge.new :
              (\A j \in DOMAIN merge.new : j > i => merge.new[j].date # merge.new[i].date)
              => merge.new[i] \in Range(merge.twice)
        /\ \A r \in Range(merge.local) :
              (\A i \in DOMAIN merge.new : merge.new[i].date # r.date)
              => r \in Range(merge.twice)

C9_Witness ==
    /\ merge.step = 2
    /\ \E r \in Range(merge.local) : \E i \in DOMAIN merge.new :
          merge.new[i].date = r.date /\ merge.new[i].net_value # r.net_value
    /\ Len(merge.new) = 2 /\ merge.new[1].date = merge.new[2].date
    /\ Len(merge.twice) = Len(merge.local)

\* C10: every file has pairwise distinct dates in ascending order and no row
\* with a missing date or value.
C10_StoredSeriesWellFormed ==
    \A f \in Funds :
        /\ \A i, j \in DOMAIN store[f] : i < j => store[f][i].date < store[f][j].date
        /\ \A i \in DOMAIN store[f] :
              store[f][i].date # NaT /\ store[f][i].net_value # NaN

C10_Witness ==
    \E f \in Funds :
        /\ remote[f].kind = "messy" /\ saves[f] = 1
        /\ Len(store[f]) = 2

\* the step in which f's fetch returns a frame
SyncSucceeds(f) ==
    task[f].pc = "loop" /\ task'[f].pc = "done" /\ task'[f].raised = ""

\* C11: in every step in which a fund's fetch returns successfully, the series
\* read from its file afterwards is at least as long as the one read before and
\* ends no earlier; the frame handed to the indicators is the last 100 rows of
\* the file, which itself keeps every row.
C11_CacheNeverShrinks ==
    [][\A f \in Funds :
          SyncSucceeds(f) =>
             LET before == ReadLocalData(f)
                 after  == ReadLocalData(f)'
             IN  /\ Len(after) >= Len(before)
                 /\ before # <<>> =>
                        after # <<>> /\ MaxDate(after) >= MaxDate(before)
                 /\ Len(task'[f].df) <= 100
                 /\ task'[f].df = SubSeq(after, Len(after) - Len(task'[f].df) + 1,
                                         Len(after))]_vars

C11_Witness ==
    \E f \in Funds :
        /\ task[f].pc = "done" /\ task[f].raised = "" /\ saves[f] = 1
        /\ Len(store[f]) = 103
        /\ Len(task[f].df) = 100

\* C12 (as claimed): when the process is killed during a save, the file holds
\* the complete series it held before the save or the complete new series.
C12_SaveAtomic ==
    \A f \in Funds :
        task[f].pc = "killed" =>
            \/ store[f] = task[f].local_df
            \/ store[f] = MergeAppend(task[f].local_df, Concat(task[f].all_new_data))

\* C13: a file that cannot be parsed, is empty or lacks the date / net_value
\* columns never makes get_fund_data fail; its fund is queued for fetching and
\* has no record before its fetch is collected; every attempt of the fetch
\* starts from the empty local frame; and the save that replaces the file
\* stores every valid row of the fetched page, whatever its date.
C13_DamagedFileIsNoHistory ==
    /\ [](\A f \in Funds :
            damage[f] \in {"unparseable", "empty", "no_columns"} =>
               /\ pc # "aborted"
               /\ f \in Preloaded =>
                     /\ f \in Range(fund_codes_to_fetch)
                     /\ f \notin Collected => f \notin DOMAIN fund_data
               /\ task[f].pc \in {"loop", "sleep"} => task[f].local_df = <<>>)
    /\ [][\A f \in Funds :
            (damage[f] # "none" /\ saves'[f] = saves[f] + 1) =>
               /\ damage'[f] = "none"
               /\ \A r \in Range(Page(RemoteRows(remote[f]), 1)) :
                     (r.date >= 0 /\ r.net_value >= 0) =>
                         \E i \in DOMAIN store'[f] : store'[f][i].date = r.date]_vars

C13_Witness ==
    \E f \in Funds :
        /\ damage[f] = "no_columns" /\ Len(store[f]) = 26
        /\ f \in Range(fund_codes_to_fetch)
        /\ task[f].pc = "loop" /\ task[f].local_df = <<>> /\ task[f].attempt_number = 2

\* every indicator of the snapshot the rules were applied to has a value
AllAvailable ==
    /\ ~sig.snap.rsi.nan /\ ~sig.snap.ma_ratio.nan /\ ~sig.snap.macd_diff.nan
    /\ ~sig.snap.bb_upper.nan /\ ~sig.snap.bb_lower.nan

\* C14: for a snapshot with every indicator available, the action label is the
\* label of the first rule of the table that matches: strong-sell, weak-sell,
\* strong-buy, weak-buy in this order, else hold.
C14_FirstMatchingRule ==
    (sig.step = 1 /\ AllAvailable) =>
        LET rsi   == sig.snap.rsi.v
            ratio == sig.snap.ma_ratio.v
            hist  == sig.snap.macd_diff.v
            value == sig.snap.latest_net_value * 10000
            upper == sig.snap.bb_upper.v
            lower == sig.snap.bb_lower.v
            strong_sell == ratio < 9500 \/ (rsi > 700000 /\ ratio > 12000 /\ hist < 0)
            weak_sell   == rsi > 650000 \/ value > upper \/ ratio > 12000
            strong_buy  == rsi < 350000 /\ ratio < 9000 /\ hist > 0
            weak_buy    == rsi < 450000 \/ value < lower \/ ratio < 10000
        IN  sig.label = IF strong_sell THEN "strong_sell"
                        ELSE IF weak_sell THEN "weak_sell"
                        ELSE IF strong_buy THEN "strong_buy"
                        ELSE IF weak_buy THEN "weak_buy"
                        ELSE "hold"

C14_Witness ==
    /\ sig.step = 1 /\ AllAvailable
    /\ sig.snap.rsi.v = 680000 /\ sig.snap.ma_ratio.v = 9700
    /\ sig.label = "weak_sell"

\* C15 (as claimed): a snapshot with rsi < 35, ma_ratio < 0.9 and a positive
\* MACD histogram is labelled strong-buy.
C15_OversoldIsStrongBuy ==
    (sig.step = 1 /\ AllAvailable
        /\ sig.snap.rsi.v < 350000 /\ sig.snap.ma_ratio.v < 9000
        /\ sig.snap.macd_diff.v > 0)
    => sig.label = "strong_buy"

\* C16: the label of a position k >= 26 (counted from 0) is unchanged when
\* points are appended after k: a backtest of a series with one more point
\* gives every position of the shorter series the label it had before.
C16_NoLookAhead ==
    [][(bt.step = "start" /\ bt'.step = "trade")
          => \A p \in DOMAIN bt.signals :
                 p - 1 >= 26 => bt'.signals[p] = bt.signals[p]]_vars

C16_Witness ==
    /\ bt.step = "trade"
    /\ bt.i = 1
    /\ Len(bt.df) = 102
    /\ bt.df[102].net_value = bt.df[100].net_value - 12
    /\ \E p \in 27..100 : bt.signals[p] \in {StrongBuy, WeakBuy}
    /\ \E p \in 27..100 : bt.signals[p] \in {StrongSell, WeakSell}
    /\ \E p \in 27..100 : bt.signals[p] = Hold

\* C17: the backtest holds at most one position.  The position is 0 or 1; a
\* trade is opened only at a buy-class label while flat and closed only at a
\* sell-class label while holding; trades follow one another without overlap,
\* so only the last may be open; the returns are those of the closed trades.
BuyClass == {"strong_buy", "weak_buy"}
SellClass == {"strong_sell", "weak_sell"}

SinglePosition ==
    /\ bt.position \in {0, 1}
    /\ \A j \in DOMAIN bt.trades :
          /\ bt.signals[bt.trades[j].buy_at] \in BuyClass
          /\ bt.trades[j].sold =>
                /\ bt.signals[bt.trades[j].sell_at] \in SellClass
                /\ bt.trades[j].sell_at > bt.trades[j].buy_at
          /\ j < Len(bt.trades) =>
                /\ bt.trades[j].sold
                /\ bt.trades[j + 1].buy_at > bt.trades[j].sell_at
    /\ bt.position = 1 <=> (bt.trades # <<>> /\ ~bt.trades[Len(bt.trades)].sold)
    /\ bt.step = "done" =>
          Len(bt.result.returns)
              = Cardinality({j \in DOMAIN bt.trades : bt.trades[j].sold})

Closed(trades) == Cardinality({j \in DOMAIN trades : trades[j].sold})

EntryAndExit ==
    (bt.step = "trade" /\ bt'.step = "trade") =>
        /\ Len(bt'.trades) > Len(bt.trades) =>
              bt.position = 0 /\ bt.signals[bt.i + 1] \in BuyClass
        /\ Closed(bt'.trades) > Closed(bt.trades) =>
              bt.position = 1 /\ bt.signals[bt.i + 1] \in SellClass

C17_SinglePosition == []SinglePosition /\ [][EntryAndExit]_vars

C17_Witness ==
    /\ bt.step = "done"
    /\ Len(bt.trades) >= 3
    /\ ~bt.trades[Len(bt.trades)].sold
    /\ Len(bt.result.returns) = Len(bt.trades) - 1

\* C18: the order of the report's rows is a function of the records alone.
\* The report has one row per fund, ascending by action priority, then advice
\* priority, then RSI with the missing ones last, and rows that tie on all
\* three stand in ascending order of fund code, whatever the order in which
\* the worker tasks completed.
ActionPriority(r) ==
    CASE r.action_signal = "strong_buy" -> 1 [] r.action_signal = "weak_buy" -> 2
      [] r.action_signal = "hold" -> 3 [] r.action_signal = "weak_sell" -> 4
      [] r.action_signal = "strong_sell" -> 5 [] r.action_signal = "N/A" -> 6

SameKey(a, b) ==
    /\ ActionPriority(a) = ActionPriority(b)
    /\ a.advice = b.advice
    /\ a.rsi = b.rsi

Before(a, b) ==
    \/ ActionPriority(a) < ActionPriority(b)
    \/ /\ ActionPriority(a) = ActionPriority(b)
       /\ order_map_advice(a.advice) < order_map_advice(b.advice)
    \/ /\ ActionPriority(a) = ActionPriority(b)
       /\ a.advice = b.advice
       /\ ~a.rsi.nan
       /\ b.rsi.nan \/ a.rsi.v < b.rsi.v
    \/ SameKey(a, b) /\ a.fund_code < b.fund_code

C18_ReportOrderIgnoresCompletion ==
    pc = "reported" =>
        /\ Len(report) = Cardinality(report_codes)
        /\ {report[i].fund_code : i \in DOMAIN report} = report_codes
        /\ \A i, j \in DOMAIN report : i < j => Before(report[i], report[j])

C18_Witness ==
    /\ pc = "reported"
    /\ collected = <<2, 1>>
    /\ Len(report) = 2
    /\ SameKey(report[1], report[2])
    /\ report[1].action_signal # "N/A"
    /\ report[1].fund_code = 1

\* the valid rows of the page that f's next request returns
ValidRowsOfNextPage(f) ==
    DropNa(CoerceRows(Page(RemoteRows(remote[f]), task[f].page_index)))

\* C19: on a first sync (no local history) every request that is answered
\* without error by a page with at least one valid row ends the fetch with
\* success, with every date of the page's valid rows in the newly created
\* file, be the page partial or full.
C19_FirstSyncSucceeds ==
    [][\A f \in Funds :
          (/\ task[f].pc = "loop"
           /\ task[f].local_df = <<>>
           /\ ValidRowsOfNextPage(f) # <<>>
           /\ FetchPage(f, "ok"))
          => /\ task'[f].pc = "done"
             /\ task'[f].raised = ""
             /\ {store'[f][i].date : i \in DOMAIN store'[f]}
                   = {ValidRowsOfNextPage(f)[i].date : i \in DOMAIN ValidRowsOfNextPage(f)}]_vars

\* C20: within an attempt of a fund that has local history, a page answered
\* without error is followed by a request for the next page unless it has no
\* row newer than the local latest date, or has fewer than 20 rows, or is the
\* fifth page.
C20_ThreeStopConditions ==
    [][\A f \in Funds :
          (/\ task[f].pc = "loop"
           /\ task[f].local_df # <<>>
           /\ FetchPage(f, "ok")
           /\ \E i \in DOMAIN ValidRowsOfNextPage(f) :
                  ValidRowsOfNextPage(f)[i].date > MaxDate(task[f].local_df)
           /\ Len(ValidRowsOfNextPage(f)) >= 20
           /\ task[f].page_index < 5)
          => /\ task'[f].pc = "loop"
             /\ task'[f].page_index = task[f].page_index + 1]_vars

\* C21: a malformed page (no content or pages field) fails the attempt: the
\* attempt is followed by tenacity's wait and a retry, or, at the fifth attempt,
\* by the failure of the fetch, for a fund with local history as for one
\* without.
C21_MalformedPageIsRetried ==
    [][\A f \in Funds :
          (task[f].pc = "loop" /\ FetchPage(f, "malformed"))
          => \/ task'[f].pc = "sleep"
             \/ /\ task'[f].pc = "done"
                /\ task'[f].raised = "RetryError"
                /\ task[f].attempt_number = 5]_vars

\* the step in which f's first page comes back with valid rows, none of them
\* newer than the local latest date
NoNewerRows(f) ==
    /\ task[f].pc = "loop"
    /\ task[f].local_df # <<>>
    /\ task[f].page_index = 1
    /\ ValidRowsOfNextPage(f) # <<>>
    /\ \A i \in DOMAIN ValidRowsOfNextPage(f) :
          ValidRowsOfNextPage(f)[i].date <= MaxDate(task[f].local_df)
    /\ FetchPage(f, "ok")

\* C22: when the remote has rows but none newer than the local latest date,
\* the fetch returns without error, the file is not written and keeps its
\* content, the frame returned is the last 100 local rows, and the fund's
\* record is the one computed from them.
C22_NoNewDataIsNotAnError ==
    /\ [][\A f \in Funds :
             NoNewerRows(f) =>
                /\ task'[f].pc = "done"
                /\ task'[f].raised = ""
                /\ store'[f] = store[f]
                /\ saves'[f] = saves[f]
                /\ Len(task'[f].df) = Min(100, Len(store[f]))
                /\ \A i \in DOMAIN task'[f].df :
                      task'[f].df[i] = store[f][Len(store[f]) - Len(task'[f].df) + i]]_vars
    /\ [](\A f \in Collected :
             (task[f].raised = "" /\ requests[f] > 0 /\ saves[f] = 0)
             => fund_data[f] = CalculateIndicators(f, TailN(store[f], 100)))

C22_Witness ==
    /\ 1 \in Collected
    /\ task[1].raised = ""
    /\ requests[1] = 1
    /\ saves[1] = 0
    /\ Len(store[1]) = 26
    /\ store[1][26].date = StartDay - 2
    /\ remote[1] = [kind |-> "series", newest |-> StartDay - 2, count |-> 30]
    /\ fund_data[1].action_signal # "N/A"

\* C23: the action label is "N/A" whenever the RSI or the MA ratio of the
\* latest point is NaN; none of the five trading labels is given then.
C23_UnavailableWithoutRsiOrRatio ==
    (sig.step = 1 /\ (sig.rec.rsi.nan \/ sig.rec.ma_ratio.nan))
        => sig.rec.action_signal = "N/A"

\* the clauses of lines 259-277, each on its own
SellClause(s) ==
    \/ Lt(s.ma_ratio, 95)
    \/ Gt(s.rsi, 7000) /\ Gt(s.ma_ratio, 120) /\ ~s.macd_diff.nan /\ s.macd_diff.v < 0
    \/ Gt(s.rsi, 6500)
    \/ ~s.bb_upper.nan /\ s.latest_net_value * FixScale > s.bb_upper.v
    \/ Gt(s.ma_ratio, 120)

BuyClause(s) ==
    \/ Lt(s.rsi, 3500) /\ Lt(s.ma_ratio, 90) /\ ~s.macd_diff.nan /\ s.macd_diff.v > 0
    \/ Lt(s.rsi, 4500)
    \/ ~s.bb_lower.nan /\ s.latest_net_value * FixScale < s.bb_lower.v
    \/ Lt(s.ma_ratio, 100)

\* C24: no snapshot satisfies a buy-class clause and a sell-class clause at
\* the same time.
C24_BuyAndSellExclusive ==
    sig.step = 1 => ~(BuyClause(sig.snap) /\ SellClause(sig.snap))

\* C25: at every position i >= 26 (counted from 0) the backtest's label is the
\* action label _calculate_indicators returns for the rows 0..i.
C25_BacktestIsLiveSignal ==
    (bt.step = "trade" /\ bt.i = 1) =>
        \A p \in DOMAIN bt.signals :
            p - 1 >= 26 =>
                bt.signals[p] = CalculateIndicators(1, SubSeq(bt.df, 1, p)).action_signal

\* the series has no falling day among its last 14
NoLossInWindow(df) ==
    \A i \in 1..Len(df) :
        (i > 1 /\ i > Len(df) - 14) => df[i].net_value >= df[i - 1].net_value

\* C26: with no loss in the 14-day window the RSI of the latest point is 100.
C26_RsiSaturates ==
    (sig.step = 1 /\ Len(sig.df) >= 26 /\ NoLossInWindow(sig.df))
        => ~sig.rec.rsi.nan /\ sig.rec.rsi.v = 100 * FixScale

Distinct(s) == \A i, j \in DOMAIN s : i # j => s[i] # s[j]

OneWriterPerFile ==
    /\ \A f \in Funds :
          store'[f] # store[f] => (task[f].pc = "loop" /\ task'[f].pc = "done")
    /\ \A f, g \in Funds :
          (store'[f] # store[f] /\ store'[g] # store[g]) => f = g
    /\ \A f \in DOMAIN fund_data :
          f \in DOMAIN fund_data' /\ fund_data'[f] = fund_data[f]
    /\ Cardinality(DOMAIN fund_data') <= Cardinality(DOMAIN fund_data) + 1

C28_TasksPartitionedByCode ==
    /\ [](/\ Distinct(fund_codes)
          /\ Distinct(fund_codes_to_fetch)
          /\ Distinct(collected)
          /\ \A f \in Funds : saves[f] <= 1
          /\ \A f \in Funds : task[f].pc # "idle" => f \in Range(fund_codes_to_fetch))
    /\ [][OneWriterPerFile]_vars

C28_Witness ==
    /\ task[1].pc = "loop"
    /\ task[1].attempt_number = 2
    /\ task[2].pc = "done"
    /\ saves[2] = 1
    /\ store[2] # <<>>
    /\ collected = <<>>

\* the dates of the valid remote rows newer than the latest row f's task read
NewerRemoteDates(f) ==
    LET rows == DropNa(CoerceRows(RemoteRows(remote[f])))
    IN  {rows[i].date : i \in {j \in DOMAIN rows :
                                  rows[j].date > MaxDate(task[f].local_df)}}

\* C29: a successful sync of a fund with local history leaves no gap: when
\* the remote table has at most 100 rows, the file afterwards has a row for
\* every remote date newer than the previous local latest date, and every row
\* it had before.
C29_SyncLeavesNoGap ==
    [][\A f \in Funds :
          (/\ task[f].pc = "loop"
           /\ task[f].local_df # <<>>
           /\ FetchPage(f, "ok")
           /\ task'[f].pc = "done"
           /\ task'[f].raised = ""
           /\ Len(RemoteRows(remote[f])) <= 100)
          => /\ NewerRemoteDates(f) \subseteq {store'[f][i].date : i \in DOMAIN store'[f]}
             /\ \A i \in DOMAIN task[f].local_df :
                   \E j \in DOMAIN store'[f] : store'[f][j] = task[f].local_df[i]]_vars

\* C30: an attempt that raises after having gathered rows, and any attempt
\* that is going to be retried, persists nothing; the file is written only in
\* the step in which an attempt leaves its page loop for good; a retry reads
\* the file again and starts at page 1 with nothing gathered.
FailedAttemptLeavesNoTrace(f) ==
    /\ (/\ task[f].pc = "loop"
        /\ \/ task'[f].pc = "sleep"
           \/ task'[f].raised # "" /\ task[f].all_new_data # <<>>)
          => (store'[f] = store[f] /\ saves'[f] = saves[f] /\ damage'[f] = damage[f])
    /\ (store'[f] # store[f] \/ saves'[f] # saves[f])
          => (task[f].pc = "loop" /\ task'[f].pc \in {"done", "killed"})
    /\ (task[f].pc = "sleep" /\ task'[f].pc = "loop")
          => /\ task'[f].page_index = 1
             /\ task'[f].all_new_data = <<>>
             /\ task'[f].local_df = (IF damage[f] = "none" THEN store[f] ELSE <<>>)
             /\ task'[f].attempt_number = task[f].attempt_number + 1

C30_FailedAttemptPersistsNothing ==
    [][\A f \in Funds : FailedAttemptLeavesNoTrace(f)]_vars

C30_Witness ==
    /\ task[1].pc = "loop"
    /\ task[1].attempt_number = 2
    /\ requests[1] = 3
    /\ task[1].page_index = 1
    /\ task[1].all_new_data = <<>>
    /\ saves[1] = 0
    /\ Len(store[1]) = 26
    /\ task[1].local_df = store[1]

=============================================================================
